---- MODULE Spec2Model ----
(***************************************************************************)
(* A model of the digital media library: the content records of           *)
(* src/src/media.py and src/src/content_types.py, the SearchFilter and    *)
(* the MediaLibrary of src/src/library.py.                                *)
(*                                                                         *)
(* Representation.                                                         *)
(*  - A Python str is a sequence of one-character strings, so that        *)
(*    lower(), strip() and the substring test are computed, not assumed.  *)
(*  - A record object is an entry of the heap `objs`; its identity is its *)
(*    index.  MediaContent defines no __eq__, so Python's == on records   *)
(*    is identity: list membership and list.remove compare indices.       *)
(*  - A datetime is an integer number of days; a timedelta of N days is N.*)
(*  - A rating is a whole number of stars; an average is the exact        *)
(*    rational [num, den] in lowest terms (0.0 is 0/1).  IEEE division is *)
(*    correctly rounded, so two such quotients of small integers are equal*)
(*    or ordered as doubles exactly as they are as rationals.             *)
(***************************************************************************)
EXTENDS Integers, Sequences, FiniteSets, TLC

VARIABLES objs, _content, _content_by_type, now, result

vars == <<objs, _content, _content_by_type, now, result>>

(***************************************************************************)
(* Bounds of the model.                                                    *)
(***************************************************************************)
\* records the client of Spec constructs
MaxObjs == 3

\* records the client of SpecRecord constructs
MaxRatedObjs == 1

\* ratings the client of SpecRecord gives one record
MaxRatings == 3

\* views the client of SpecRecord records on one record
MaxViews == 2

\* records the client of SpecSearch constructs
MaxSearchObjs == 2

\* ratings the client of SpecSearch gives in all
MaxSearchRatings == 1

\* records the client of SpecTop constructs
MaxTopObjs == 3

\* ratings the client of SpecTop gives in all
MaxTopRatings == 2

\* records the client of SpecStats constructs
MaxStatObjs == 2

\* ratings the client of SpecStats gives in all
MaxStatRatings == 2

\* views the client of SpecStats records in all
MaxStatViews == 1

\* movies the client of SpecMovie constructs
MaxMovies == 1

\* days the clock of SpecMovie advances
MaxNow == 4
MaxBuiltObjs == 3
MaxMetaMovies == 2
MaxRecentObjs == 2
MaxRecentNow == 2

(***************************************************************************)
(* Enumerations (media.py).                                                *)
(***************************************************************************)
MediaType == {"movie", "tv_show", "music", "podcast"}

ContentRating == {"G", "PG", "PG-13", "R", "NC-17", "Unrated"}

\* an Optional value is a sequence of at most one element: None is empty,
None == <<>>

\* and a value that is set holds it
Some(v) == <<v>>

\* bool(x) of an Optional number: neither None nor zero
Truthy(x) == x # None /\ x[1] # 0

(***************************************************************************)
(* str operations.                                                         *)
(***************************************************************************)
LowerChar(c) ==
    CASE c = "A" -> "a"
      [] c = "B" -> "b"
      [] c = "C" -> "c"
      [] c = "D" -> "d"
      [] OTHER -> c

\* str.lower()
Lower(s) == [i \in 1..Len(s) |-> LowerChar(s[i])]

IsSpace(c) == c \in {" ", "\t", "\n"}

RECURSIVE LStrip(_)
LStrip(s) ==
    IF s # <<>> /\ IsSpace(Head(s)) THEN LStrip(Tail(s)) ELSE s

RECURSIVE RStrip(_)
RStrip(s) ==
    IF s # <<>> /\ IsSpace(s[Len(s)]) THEN RStrip(SubSeq(s, 1, Len(s) - 1)) ELSE s

\* str.strip()
Strip(s) == RStrip(LStrip(s))

\* q in s, for strs
Contains(q, s) ==
    \E i \in 0..(Len(s) - Len(q)) : SubSeq(s, i + 1, i + Len(q)) = q

(***************************************************************************)
(* list operations.                                                        *)
(***************************************************************************)
Range(s) == {s[i] : i \in 1..Len(s)}

\* x in list
ListContains(s, x) == \E i \in 1..Len(s) : s[i] = x

\* index of the first element equal to x (x is in s)
FirstIndex(s, x) == CHOOSE i \in 1..Len(s) : s[i] = x /\ \A j \in 1..(i - 1) : s[j] # x

RemoveAt(s, i) == SubSeq(s, 1, i - 1) \o SubSeq(s, i + 1, Len(s))

\* list.remove(x) when x is in the list: drops its first occurrence
ListRemove(s, x) == RemoveAt(s, FirstIndex(s, x))

(***************************************************************************)
(* MediaContent (media.py).                                                *)
(***************************************************************************)
\* the average of no ratings, 0.0
ZeroAvg == [num |-> 0, den |-> 1]

\* MediaContent.__init__ raises ValueError
InitRaises(title, duration_minutes, genres) ==
    \/ title = <<>>
    \/ duration_minutes <= 0
    \/ genres = <<>>

\* the record MediaContent.__init__ builds (with the subclass's media type)
NewRecord(media_type, title, duration_minutes, release_date, content_rating, genres, description) ==
    [ media_type       |-> media_type,
      title            |-> Strip(title),
      duration_minutes |-> duration_minutes,
      release_date     |-> release_date,
      content_rating   |-> content_rating,
      genres           |-> [i \in 1..Len(genres) |-> Lower(Strip(genres[i]))],
      description      |-> Strip(description),
      view_count       |-> 0,
      average_rating   |-> ZeroAvg,
      ratings          |-> <<>>,
      created_at       |-> now ]

\* the result of the last call: its name and what it returned,
Returned(op, ret) == [op |-> op, err |-> "none", ret |-> ret]

\* or its name and what it raised
Raised(op, err) == [op |-> op, err |-> err]

(***************************************************************************)
(* float arithmetic on averages, as exact rationals in lowest terms.       *)
(***************************************************************************)
RECURSIVE GCD(_, _)
GCD(a, b) == IF b = 0 THEN a ELSE GCD(b, a % b)

\* n / d
Quot(n, d) == [num |-> n \div GCD(n, d), den |-> d \div GCD(n, d)]

\* a + b
RatAdd(a, b) == Quot(a.num * b.den + b.num * a.den, a.den * b.den)

\* a < b
RatLess(a, b) == a.num * b.den < b.num * a.den

\* float(n)
Float(n) == [num |-> n, den |-> 1]

\* sum(list) of whole numbers
RECURSIVE Sum(_)
Sum(s) == IF s = <<>> THEN 0 ELSE Head(s) + Sum(Tail(s))

\* faulty variant: add_rating that appends the rating before it validates it
add_rating_append_first(o, rating) ==
    /\ o \in 1..Len(objs)
    /\ LET rs == Append(objs[o].ratings, rating)
       IN IF ~(1 <= rating /\ rating <= 5)
          THEN /\ objs' = [objs EXCEPT ![o].ratings = rs]
               /\ result' = Raised("add_rating", "ValueError")
          ELSE /\ objs' = [objs EXCEPT ![o].ratings = rs,
                                       ![o].average_rating = Quot(Sum(rs), Len(rs))]
               /\ result' = Returned("add_rating", None)
    /\ UNCHANGED <<_content, _content_by_type, now>>

\* faulty variant: add_rating that averages the old average with the new rating
add_rating_running(o, rating) ==
    /\ o \in 1..Len(objs)
    /\ IF ~(1 <= rating /\ rating <= 5)
       THEN /\ result' = Raised("add_rating", "ValueError")
            /\ UNCHANGED objs
       ELSE /\ objs' = [objs EXCEPT
                          ![o].ratings = Append(@, rating),
                          ![o].average_rating =
                             IF objs[o].ratings = <<>> THEN Float(rating)
                             ELSE Quot(@.num + rating * @.den, 2 * @.den)]
            /\ result' = Returned("add_rating", None)
    /\ UNCHANGED <<_content, _content_by_type, now>>

\* MediaContent.add_rating(rating) on the record object o, rating a number
add_rating(o, rating) ==
    /\ o \in 1..Len(objs)
    /\ IF ~(1 <= rating /\ rating <= 5)
       THEN /\ result' = Raised("add_rating", "ValueError")
            /\ UNCHANGED objs
       ELSE LET rs == Append(objs[o].ratings, rating)
            IN /\ objs' = [objs EXCEPT ![o].ratings = rs,
                                       ![o].average_rating = Quot(Sum(rs), Len(rs))]
               /\ result' = Returned("add_rating", None)
    /\ UNCHANGED <<_content, _content_by_type, now>>

\* MediaContent.add_view() on the record object o
add_view(o) ==
    /\ o \in 1..Len(objs)
    /\ objs' = [objs EXCEPT ![o].view_count = @ + 1]
    /\ result' = Returned("add_view", None)
    /\ UNCHANGED <<_content, _content_by_type, now>>

\* faulty variant: is_recently_released with a strict comparison
is_recently_released_strict(o, days) ==
    LET cutoff_date == now - days
    IN objs[o].release_date > cutoff_date

\* MediaContent.is_recently_released(days) on the record object o
is_recently_released(o, days) ==
    LET cutoff_date == now - days
    IN objs[o].release_date >= cutoff_date

\* get_media_type() of the record object o
get_media_type(o) == objs[o].media_type

\* a client constructs a record: Movie(...), TVShow(...), Music(...), Podcast(...)
Construct(media_type, title, duration_minutes, release_date, content_rating, genres, description) ==
    /\ IF InitRaises(title, duration_minutes, genres)
       THEN /\ result' = Raised("construct", "ValueError")
            /\ UNCHANGED objs
       ELSE /\ objs' = Append(objs, NewRecord(media_type, title, duration_minutes,
                                              release_date, content_rating,
                                              genres, description))
            /\ result' = Returned("construct", Len(objs) + 1)
    /\ UNCHANGED <<_content, _content_by_type, now>>

(***************************************************************************)
(* Streaming (content_types.py).                                           *)
(***************************************************************************)
\* days after its release during which a movie is not streamed
MovieStreamingDelay == 90

\* str.replace(old, new) for one-character old and new
Replace(s, old, new) == [i \in 1..Len(s) |-> IF s[i] = old THEN new ELSE s[i]]

\* the f-string of get_streaming_url: a fixed prefix and the title's slug
StreamingUrl(prefix, title) == [prefix |-> prefix, slug |-> Replace(Lower(title), " ", "-")]

\* can_stream() of the record object o: Movie's, or the other kinds' True
can_stream(o) ==
    IF get_media_type(o) = "movie"
    THEN ~is_recently_released(o, MovieStreamingDelay)
    ELSE TRUE

\* a client calls o.can_stream()
call_can_stream(o) ==
    /\ o \in 1..Len(objs)
    /\ result' = Returned("can_stream", can_stream(o))
    /\ UNCHANGED <<objs, _content, _content_by_type, now>>

\* Movie.get_streaming_url() on the movie object o
get_streaming_url(o) ==
    /\ o \in 1..Len(objs)
    /\ get_media_type(o) = "movie"
    /\ IF ~can_stream(o)
       THEN result' = Raised("get_streaming_url", "ValueError")
       ELSE result' = Returned("get_streaming_url",
                               StreamingUrl("https://stream.example.com/movies/",
                                            objs[o].title))
    /\ UNCHANGED <<objs, _content, _content_by_type, now>>

\* the clock, datetime.now(), advances by a day
Tick ==
    /\ now' = now + 1
    /\ UNCHANGED <<objs, _content, _content_by_type, result>>

(***************************************************************************)
(* Matching (media.py) and SearchFilter (library.py).                      *)
(***************************************************************************)
\* MediaContent.matches_genre(genre) on the record object o
matches_genre(o, genre) == ListContains(objs[o].genres, Strip(Lower(genre)))

\* MediaContent.matches_search(query) on the record object o
matches_search(o, query) ==
    LET q == Strip(Lower(query))
    IN IF Contains(q, Lower(objs[o].title)) THEN TRUE
       ELSE IF Contains(q, Lower(objs[o].description)) THEN TRUE
       ELSE IF \E i \in 1..Len(objs[o].genres) : Contains(q, objs[o].genres[i]) THEN TRUE
       ELSE FALSE

\* SearchFilter.__init__
SearchFilter_init ==
    [ genres                 |-> {},
      media_types            |-> {},
      content_ratings        |-> {},
      min_rating             |-> None,
      max_duration           |-> None,
      recently_released_days |-> None ]

\* SearchFilter.add_genre_filter(genre) on the filter f
add_genre_filter(f, genre) == [f EXCEPT !.genres = @ \cup {Strip(Lower(genre))}]

\* SearchFilter.add_type_filter(media_type) on the filter f
add_type_filter(f, media_type) == [f EXCEPT !.media_types = @ \cup {media_type}]

\* SearchFilter.set_rating_filter(min_rating) on the filter f, min_rating in
\* [1.0, 5.0] (it raises ValueError otherwise)
set_rating_filter(f, min_rating) == [f EXCEPT !.min_rating = Some(min_rating)]

\* SearchFilter.matches(content) on the filter f, content the record object o
matches(f, o) ==
    IF f.genres # {} /\ ~(\E genre \in f.genres : matches_genre(o, genre)) THEN FALSE
    ELSE IF f.media_types # {} /\ get_media_type(o) \notin f.media_types THEN FALSE
    ELSE IF f.content_ratings # {} /\ objs[o].content_rating \notin f.content_ratings
         THEN FALSE
    ELSE IF Truthy(f.min_rating)
            /\ RatLess(objs[o].average_rating, Float(f.min_rating[1])) THEN FALSE
    ELSE IF Truthy(f.max_duration)
            /\ objs[o].duration_minutes > f.max_duration[1] THEN FALSE
    ELSE IF Truthy(f.recently_released_days)
            /\ ~is_recently_released(o, f.recently_released_days[1]) THEN FALSE
    ELSE TRUE

\* a client calls f.matches(o)
call_matches(f, o) ==
    /\ o \in 1..Len(objs)
    /\ result' = Returned("matches", matches(f, o))
    /\ UNCHANGED <<objs, _content, _content_by_type, now>>

(***************************************************************************)
(* MediaLibrary (library.py).                                              *)
(***************************************************************************)
\* MediaLibrary.total_content
total_content == Len(_content)

\* faulty variant: add_content without the membership test
add_content_unchecked(o) ==
    /\ o \in 1..Len(objs)
    /\ _content' = Append(_content, o)
    /\ _content_by_type' =
         [_content_by_type EXCEPT ![get_media_type(o)] = Append(@, o)]
    /\ result' = Returned("add_content", None)
    /\ UNCHANGED <<objs, now>>

\* MediaLibrary.add_content(content), content the record object o
add_content(o) ==
    /\ o \in 1..Len(objs)
    /\ IF ListContains(_content, o)
       THEN /\ result' = Raised("add_content", "ValueError")
            /\ UNCHANGED <<_content, _content_by_type>>
       ELSE /\ _content' = Append(_content, o)
            /\ _content_by_type' =
                 [_content_by_type EXCEPT ![get_media_type(o)] = Append(@, o)]
            /\ result' = Returned("add_content", None)
    /\ UNCHANGED <<objs, now>>

\* faulty variant: the comparison of remove_content without lower()
TitleMatchesCaseSensitive(title) ==
    SelectSeq(_content, LAMBDA o : objs[o].title = title)

\* the records of the library whose title equals `title` ignoring case, as the
\* loop of remove_content meets them
TitleMatches(title) ==
    SelectSeq(_content, LAMBDA o : Lower(objs[o].title) = Lower(title))

\* faulty variant: remove_content that forgets the kind index
remove_content_primary_only(title) ==
    /\ IF TitleMatches(title) # <<>>
       THEN /\ _content' = ListRemove(_content, Head(TitleMatches(title)))
            /\ result' = Returned("remove_content", TRUE)
       ELSE /\ result' = Returned("remove_content", FALSE)
            /\ UNCHANGED _content
    /\ UNCHANGED <<objs, now, _content_by_type>>

\* MediaLibrary.remove_content(title)
remove_content(title) ==
    /\ IF TitleMatches(title) # <<>>
       THEN LET content == Head(TitleMatches(title))
                k == get_media_type(content)
            IN /\ _content' = ListRemove(_content, content)
               /\ IF ListContains(_content_by_type[k], content)
                  THEN /\ _content_by_type' =
                            [_content_by_type EXCEPT ![k] = ListRemove(@, content)]
                       /\ result' = Returned("remove_content", TRUE)
                  ELSE /\ UNCHANGED _content_by_type
                       /\ result' = Raised("remove_content", "ValueError")
       ELSE /\ result' = Returned("remove_content", FALSE)
            /\ UNCHANGED <<_content, _content_by_type>>
    /\ UNCHANGED <<objs, now>>

\* faulty variant: the loop of search with the filter applied only to an empty query
SearchLoopFilterOnlyEmptyQuery(todo, query, filters) ==
    SelectSeq(todo, LAMBDA content :
        IF query # <<>> THEN matches_search(content, query)
        ELSE filters = None \/ matches(filters[1], content))

\* the loop of search over the records `todo`; filters is None or Some(filter)
RECURSIVE SearchLoop(_, _, _)
SearchLoop(todo, query, filters) ==
    IF todo = <<>> THEN <<>>
    ELSE LET content == Head(todo)
         IN IF query # <<>> /\ ~matches_search(content, query)
            THEN SearchLoop(Tail(todo), query, filters)
            ELSE IF filters # None /\ ~matches(filters[1], content)
            THEN SearchLoop(Tail(todo), query, filters)
            ELSE <<content>> \o SearchLoop(Tail(todo), query, filters)

\* what MediaLibrary.search(query, filters) returns
search(query, filters) == SearchLoop(_content, query, filters)

\* a client calls MediaLibrary.search(query, filters)
call_search(query, filters) ==
    /\ result' = Returned("search", search(query, filters))
    /\ UNCHANGED <<objs, _content, _content_by_type, now>>

\* faulty variant: an insertion that puts a record before the records of equal average,
\* as sorting ascending and reversing the list would
InsertDescBeforeEqual(sorted, x) ==
    LET before == SelectSeq(sorted, LAMBDA y :
                      RatLess(objs[x].average_rating, objs[y].average_rating))
        after  == SelectSeq(sorted, LAMBDA y :
                      ~RatLess(objs[x].average_rating, objs[y].average_rating))
    IN before \o <<x>> \o after

\* sorted(..., key=average_rating, reverse=True), one insertion: the sort is
\* stable, so x, which follows the records of `sorted` in the input, goes
\* after those whose average is greater than or equal to its own
InsertDesc(sorted, x) ==
    LET before == SelectSeq(sorted, LAMBDA y :
                      ~RatLess(objs[y].average_rating, objs[x].average_rating))
        after  == SelectSeq(sorted, LAMBDA y :
                      RatLess(objs[y].average_rating, objs[x].average_rating))
    IN before \o <<x>> \o after

\* sorted(s, key=lambda x: x.average_rating, reverse=True)
RECURSIVE SortedByRatingDesc(_)
SortedByRatingDesc(s) ==
    IF s = <<>> THEN <<>>
    ELSE InsertDesc(SortedByRatingDesc(SubSeq(s, 1, Len(s) - 1)), s[Len(s)])

\* s[:limit]
SliceTo(s, limit) ==
    IF limit >= 0 THEN SubSeq(s, 1, IF limit < Len(s) THEN limit ELSE Len(s))
    ELSE SubSeq(s, 1, Len(s) + limit)

\* what MediaLibrary.get_top_rated(limit) returns
get_top_rated(limit) ==
    SliceTo(SortedByRatingDesc(
                SelectSeq(_content, LAMBDA c : RatLess(ZeroAvg, objs[c].average_rating))),
            limit)

\* a client calls MediaLibrary.get_top_rated(limit)
call_get_top_rated(limit) ==
    /\ result' = Returned("get_top_rated", get_top_rated(limit))
    /\ UNCHANGED <<objs, _content, _content_by_type, now>>

\* sum(c.view_count for c in s)
RECURSIVE SumViews(_)
SumViews(s) == IF s = <<>> THEN 0 ELSE objs[Head(s)].view_count + SumViews(Tail(s))

\* sum(c.duration_minutes for c in s)
RECURSIVE SumMinutes(_)
SumMinutes(s) == IF s = <<>> THEN 0 ELSE objs[Head(s)].duration_minutes + SumMinutes(Tail(s))

\* sum(c.average_rating for c in s)
RECURSIVE SumAverages(_)
SumAverages(s) ==
    IF s = <<>> THEN ZeroAvg
    ELSE RatAdd(objs[Head(s)].average_rating, SumAverages(Tail(s)))

\* a / n for a float a and a count n
RatDiv(a, n) == Quot(a.num, a.den * n)

\* MediaLibrary.total_views
total_views == SumViews(_content)

\* the total_minutes up to 600 whose double total_minutes / 60 lies above a
\* value that ends in 5 hundredths and is no multiple of a quarter (the
\* hundredths 05, 15, 35, 45, ... have no exact double)
QuotientAboveTie ==
    { 3, 27, 33, 39, 63, 81, 93, 111, 141, 147, 171, 177, 201, 207, 231, 237,
      249, 267, 279, 297, 309, 327, 339, 357, 369, 387, 399, 417, 429, 447,
      459, 477, 483, 489, 513, 519, 543, 549, 573, 579 }

\* round(total_minutes / 60, 1), in tenths of an hour (total_minutes <= 600):
\* the decimal nearest to the double; a double that is a tie exactly (a
\* multiple of a quarter) goes to the even tenth
RoundedTenthsOfHours(total_minutes) ==
    LET q == total_minutes \div 6
        r == total_minutes % 6
    IN IF r < 3 THEN q
       ELSE IF r > 3 THEN q + 1
       ELSE IF total_minutes % 30 = 15 THEN (IF q % 2 = 0 THEN q ELSE q + 1)
       ELSE IF total_minutes \in QuotientAboveTie THEN q + 1
       ELSE q

\* faulty variant: the statistics with the average taken over every record
get_statistics_over_all ==
    [ total_content       |-> total_content,
      total_views         |-> total_views,
      content_by_type     |-> [k \in MediaType |-> Len(_content_by_type[k])],
      average_rating      |->
          IF _content # <<>> THEN RatDiv(SumAverages(_content), Len(_content))
          ELSE ZeroAvg,
      total_runtime_hours |->
          IF _content # <<>> THEN RoundedTenthsOfHours(SumMinutes(_content)) ELSE 0 ]

\* what MediaLibrary.get_statistics() returns; total_runtime_hours in tenths
get_statistics ==
    LET rated_content ==
            SelectSeq(_content, LAMBDA c : RatLess(ZeroAvg, objs[c].average_rating))
    IN [ total_content       |-> total_content,
         total_views         |-> total_views,
         content_by_type     |-> [k \in MediaType |-> Len(_content_by_type[k])],
         average_rating      |->
             IF _content # <<>> /\ rated_content # <<>>
             THEN RatDiv(SumAverages(rated_content), Len(rated_content))
             ELSE ZeroAvg,
         total_runtime_hours |->
             IF _content # <<>> THEN RoundedTenthsOfHours(SumMinutes(_content)) ELSE 0 ]

\* a client calls MediaLibrary.get_statistics()
call_get_statistics ==
    /\ result' = Returned("get_statistics", get_statistics)
    /\ UNCHANGED <<objs, _content, _content_by_type, now>>

\* MediaLibrary.get_content_by_type(media_type): a copy of the kind index
get_content_by_type(media_type) == _content_by_type[media_type]

(***************************************************************************)
(* The library after MediaLibrary.__init__, no record constructed yet.     *)
(***************************************************************************)
Init ==
    /\ objs = <<>>
    /\ _content = <<>>
    /\ _content_by_type = [k \in MediaType |-> <<>>]
    /\ now = 0
    /\ result = Returned("MediaLibrary", None)

(***************************************************************************)
(* Spec: a client that constructs records, adds them and removes titles.   *)
(***************************************************************************)
\* the records the client constructs, as <<kind, title>>: titles that differ only
\* in case, within a kind and across kinds, and another title
LibRecords ==
    { <<"movie", <<"A", "b">> >>, <<"movie", <<"a", "b">> >>,
      <<"music", <<"a", "b">> >>, <<"music", <<"C">> >>,
      <<"music", <<>> >> }

\* titles the client asks to remove
RemoveTitles == { <<"A", "b">>, <<"a", "b">>, <<"A", "B">>, <<"C">>, <<"c", "c">> }

NextLib ==
    \/ \E r \in LibRecords :
          Len(objs) < MaxObjs /\ Construct(r[1], r[2], 90, 0, "PG", << <<"a">> >>, <<>>)
    \/ \E o \in 1..MaxObjs : add_content(o)
    \/ \E t \in RemoveTitles : remove_content(t)

Spec == Init /\ [][NextLib]_vars

(***************************************************************************)
(* Claims about add_content and remove_content, checked under Spec.        *)
(***************************************************************************)
\* the library records of kind k, in the order of the primary collection
OfKind(k) == SelectSeq(_content, LAMBDA o : objs[o].media_type = k)

\* C1: add_content of a record whose title is already in the library raises, so
\* no two records of the library ever share a title.
C1_NoTwoRecordsShareTitle ==
    \A i, j \in 1..Len(_content) :
        i # j => objs[_content[i]].title # objs[_content[j]].title

\* C2: after any sequence of add_content and remove_content calls, each kind
\* index is the subsequence of the primary collection of the records of that
\* kind, in insertion order, and get_content_by_type returns that subsequence.
C2_KindIndexInSync ==
    \A k \in MediaType :
        /\ _content_by_type[k] = OfKind(k)
        /\ get_content_by_type(k) = OfKind(k)

\* C2 witness: a removal succeeded in a library of three records and left two
\* records of different kinds, the later-inserted one first in construction.
C2_Witness ==
    /\ result.op = "remove_content" /\ result.err = "none" /\ result.ret = TRUE
    /\ Len(objs) = 3
    /\ Len(_content) = 2
    /\ _content[1] > _content[2]
    /\ Len(_content_by_type["movie"]) = 1
    /\ Len(_content_by_type["music"]) = 1

\* positions of the primary collection whose title equals t ignoring case
MatchPositions(t) ==
    {i \in 1..Len(_content) : Lower(objs[_content[i]].title) = Lower(t)}

\* what C3 says of one call remove_content(t)
C3_Post(t) ==
    /\ result'.op = "remove_content"
    /\ result'.err = "none"
    /\ result'.ret = (MatchPositions(t) # {})
    /\ IF MatchPositions(t) = {}
       THEN UNCHANGED <<_content, _content_by_type>>
       ELSE LET i == CHOOSE m \in MatchPositions(t) :
                        \A n \in MatchPositions(t) : m <= n
            IN /\ _content' = [j \in 1..(Len(_content) - 1) |->
                                  IF j < i THEN _content[j] ELSE _content[j + 1]]
               /\ \A k \in MediaType :
                     _content_by_type'[k] =
                        SelectSeq(_content_by_type[k], LAMBDA o : o # _content[i])

\* C3: remove_content(title) returns true iff a record's title equals the
\* argument ignoring case; then exactly the earliest-inserted match leaves the
\* primary collection and its kind index and the rest keep their order;
\* otherwise it returns false, raises nothing and changes nothing.
C3_RemoveFirstMatch ==
    [][\A t \in RemoveTitles : remove_content(t) => C3_Post(t)]_vars

\* C3 witness: a removal by a title that matched two records took the earlier
\* one and kept the later one, with another record before it.
C3_Witness ==
    /\ result.op = "remove_content" /\ result.err = "none" /\ result.ret = TRUE
    /\ Len(objs) = 3
    /\ Lower(objs[1].title) = Lower(objs[3].title)
    /\ objs[1].title # objs[3].title
    /\ Lower(objs[2].title) # Lower(objs[1].title)
    /\ _content = <<2, 3>>

\* no element occurs twice in the list s
NoDuplicates(s) == \A i, j \in 1..Len(s) : i # j => s[i] # s[j]

\* what C14 says of one call add_content(o)
C14_Post(o) ==
    IF o \in Range(_content)
    THEN /\ result'.op = "add_content"
         /\ result'.err = "ValueError"
         /\ UNCHANGED <<_content, _content_by_type>>
    ELSE /\ result'.op = "add_content"
         /\ result'.err = "none"
         /\ _content' = Append(_content, o)
         /\ \A k \in MediaType :
               _content_by_type'[k] =
                  IF k = objs[o].media_type
                  THEN Append(_content_by_type[k], o)
                  ELSE _content_by_type[k]

\* C14: after any sequence of add_content and remove_content calls no record
\* object occurs more than once in the primary collection or in a kind index;
\* add_content of an object that is in the library raises ValueError and
\* leaves the primary collection and every kind index unchanged; an object
\* that remove_content removed is in the library no longer, and add_content of
\* an object that is not in the library succeeds.
C14_NoObjectTwice ==
    [][/\ NoDuplicates(_content')
       /\ \A k \in MediaType : NoDuplicates(_content_by_type'[k])
       /\ \A o \in 1..MaxObjs : add_content(o) => C14_Post(o)
       /\ \A t \in RemoveTitles :
             (remove_content(t) /\ result'.err = "none" /\ result'.ret = TRUE) =>
                /\ Head(TitleMatches(t)) \notin Range(_content')
                /\ \A k \in MediaType :
                      Head(TitleMatches(t)) \notin Range(_content_by_type'[k])
      ]_vars

\* C14 witness: in a library of three objects, added in another order than
\* they were constructed, adding one of them once more has just been refused.
C14_Witness ==
    /\ result.op = "add_content" /\ result.err = "ValueError"
    /\ Len(objs) = 3
    /\ _content = <<2, 3, 1>>

(***************************************************************************)
(* SpecRecord: a client that constructs records, rates them and views them.*)
(***************************************************************************)
\* ratings the client passes: just below the range, its two ends, just above it
RatingInputs == {0, 1, 5, 6}

NextRecord ==
    \/ /\ Len(objs) < MaxRatedObjs
       /\ Construct("movie", <<"A">>, 90, 0, "PG", << <<"a">> >>, <<>>)
    \/ \E o \in 1..MaxRatedObjs, r \in RatingInputs :
          /\ o \in 1..Len(objs)
          /\ (Len(objs[o].ratings) < MaxRatings \/ r \notin 1..5)
          /\ add_rating(o, r)
    \/ \E o \in 1..MaxRatedObjs :
          /\ o \in 1..Len(objs)
          /\ objs[o].view_count < MaxViews
          /\ add_view(o)

SpecRecord == Init /\ [][NextRecord]_vars

\* what C8 says of one call add_rating(o, r) with r outside [1, 5]
C8_Post(o) ==
    /\ result'.op = "add_rating"
    /\ result'.err = "ValueError"
    /\ objs'[o].ratings = objs[o].ratings
    /\ objs'[o].average_rating = objs[o].average_rating
    /\ objs'[o].view_count = objs[o].view_count

\* C8: add_rating with a value outside [1.0, 5.0] raises ValueError and leaves
\* the rating history, the average and the view count as they were.
C8_FailedRatingChangesNothing ==
    [][\A o \in 1..MaxRatedObjs, r \in RatingInputs :
          (add_rating(o, r) /\ (r < 1 \/ r > 5)) => C8_Post(o)]_vars

\* C8 witness: a rating was refused on a record that has ratings and views.
C8_Witness ==
    /\ result.op = "add_rating" /\ result.err = "ValueError"
    /\ \E o \in 1..Len(objs) : objs[o].ratings # <<>> /\ objs[o].view_count > 0

\* C9: every rating of the history lies in [1.0, 5.0], the average is the sum
\* of the history divided by its length, and it is 0.0 exactly while the
\* history is empty.
C9_AverageIsMean ==
    \A o \in 1..Len(objs) :
        LET rec == objs[o]
        IN /\ \A i \in 1..Len(rec.ratings) : 1 <= rec.ratings[i] /\ rec.ratings[i] <= 5
           /\ rec.average_rating.den > 0
           /\ rec.ratings # <<>> =>
                 rec.average_rating.num * Len(rec.ratings)
                    = Sum(rec.ratings) * rec.average_rating.den
           /\ (rec.average_rating.num = 0) <=> (rec.ratings = <<>>)

\* C9 witness: after a refused rating, a record viewed and rated three times
\* has a mean that is not a whole number.
C9_Witness ==
    /\ result.op = "add_rating" /\ result.err = "ValueError"
    /\ \E o \in 1..Len(objs) :
          /\ Len(objs[o].ratings) = 3
          /\ objs[o].average_rating.den = 3
          /\ objs[o].view_count > 0

(***************************************************************************)
(* SpecMovie: a client that constructs movies and asks to stream them      *)
(* while the clock advances.                                               *)
(***************************************************************************)
\* release dates the client passes, in days from the day of construction
ReleaseOffsets == {-92, -91, -90, -89, -88, 0, 1}

NextMovie ==
    \/ \E d \in ReleaseOffsets :
          /\ Len(objs) < MaxMovies
          /\ Construct("movie", <<"A", " ", "b">>, 90, now + d, "PG", << <<"a">> >>, <<>>)
    \/ \E o \in 1..MaxMovies : call_can_stream(o)
    \/ \E o \in 1..MaxMovies : get_streaming_url(o)
    \/ now < MaxNow /\ Tick

SpecMovie == Init /\ [][NextMovie]_vars

\* the movie o was released more than 90 days before now
ReleasedOver90DaysAgo(o) == now - objs[o].release_date > 90

\* C10: can_stream() of a movie is false when its release date is within 90
\* days of now and true otherwise; get_streaming_url() raises exactly when
\* can_stream() is false and returns a URL exactly when it is true; as the
\* clock advances a streamable movie stays streamable.
C10_StreamingGate ==
    [][\A o \in 1..MaxMovies :
          /\ call_can_stream(o) => (result'.ret = ReleasedOver90DaysAgo(o))
          /\ get_streaming_url(o) =>
                /\ (result'.err = "ValueError") <=> ~ReleasedOver90DaysAgo(o)
                /\ (result'.err = "none") <=> ReleasedOver90DaysAgo(o)
                /\ result'.err = "none" =>
                      result'.ret.slug = <<"a", "-", "b">>
          /\ (o \in 1..Len(objs) /\ can_stream(o)) => can_stream(o)'
      ]_vars

\* C10 witness: a movie constructed 89 days after its release, not streamable
\* then, is given a URL when the clock has reached day 91 after the release.
C10_Witness ==
    /\ result.op = "get_streaming_url" /\ result.err = "none"
    /\ \E o \in 1..Len(objs) :
          /\ objs[o].release_date = objs[o].created_at - 89
          /\ now = objs[o].release_date + 91

(***************************************************************************)
(* SpecSearch: a client that constructs records, adds them, rates them,    *)
(* and searches the library with queries and filters.                      *)
(***************************************************************************)
\* the records the client constructs, as
\* <<kind, title, description, genres, content rating, minutes, release date>>
SearchRecords ==
    { <<"movie", <<"A", "b">>, <<"c">>, << <<" ", "D">> >>, "PG", 90, -10>>,
      <<"music", <<"C">>, <<"x", "a", "B">>, << <<"b">>, <<"c">> >>, "R", 4, -100>> }

\* filters built with the fluent setters and by assigning the attributes that
\* have no setter
FilterInputs ==
    { SearchFilter_init,
      set_rating_filter(SearchFilter_init, 4),
      add_genre_filter(SearchFilter_init, <<"D", " ">>),
      add_type_filter(add_genre_filter(add_genre_filter(SearchFilter_init, <<"b">>),
                                       <<"A">>), "music"),
      [SearchFilter_init EXCEPT !.max_duration = Some(30)],
      [SearchFilter_init EXCEPT !.max_duration = Some(0)],
      [SearchFilter_init EXCEPT !.recently_released_days = Some(30)],
      [SearchFilter_init EXCEPT !.recently_released_days = Some(0)],
      [SearchFilter_init EXCEPT !.content_ratings = {"PG", "G"}, !.min_rating = Some(0)],
      [set_rating_filter(add_type_filter(SearchFilter_init, "movie"), 3)
          EXCEPT !.max_duration = Some(90)] }

\* the filters the client passes to matches and search
CalledFilters ==
    { set_rating_filter(SearchFilter_init, 4),
      add_genre_filter(SearchFilter_init, <<"D", " ">>),
      [SearchFilter_init EXCEPT !.max_duration = Some(0)],
      [set_rating_filter(add_type_filter(SearchFilter_init, "movie"), 3)
          EXCEPT !.max_duration = Some(90)] }

\* the queries the client searches for
QueryInputs == { <<>>, <<" ">>, <<"A", "B", " ">>, <<"d">>, <<"x", "x">> }

\* ratings the client gives
SearchRatings == {3, 5}

\* the number of ratings given so far
RECURSIVE RatingsGiven(_)
RatingsGiven(n) == IF n = 0 THEN 0 ELSE Len(objs[n].ratings) + RatingsGiven(n - 1)

NextSearch ==
    \/ \E r \in SearchRecords :
          /\ Len(objs) < MaxSearchObjs
          /\ Construct(r[1], r[2], r[6], r[7], r[5], r[4], r[3])
    \/ \E o \in 1..MaxSearchObjs : add_content(o)
    \/ \E o \in 1..MaxSearchObjs, r \in SearchRatings :
          /\ RatingsGiven(Len(objs)) < MaxSearchRatings
          /\ add_rating(o, r)
    \/ \E f \in CalledFilters, o \in 1..MaxSearchObjs : call_matches(f, o)
    \/ \E q \in QueryInputs, f \in CalledFilters : call_search(q, Some(f))
    \/ \E q \in QueryInputs : call_search(q, None)

SpecSearch == Init /\ [][NextSearch]_vars

\* the record o has at least one of the genres of the set
HasOneOf(o, genres) == \E i \in 1..Len(objs[o].genres) : objs[o].genres[i] \in genres

\* what C5 says matches(f, o) is
C5_Claimed(f, o) ==
    /\ f.genres = {} \/ HasOneOf(o, f.genres)
    /\ f.media_types = {} \/ objs[o].media_type \in f.media_types
    /\ f.content_ratings = {} \/ objs[o].content_rating \in f.content_ratings
    /\ f.min_rating = None
          \/ objs[o].average_rating.num >= f.min_rating[1] * objs[o].average_rating.den
    /\ f.max_duration = None \/ objs[o].duration_minutes <= f.max_duration[1]
    /\ f.recently_released_days = None
          \/ now - objs[o].release_date <= f.recently_released_days[1]

\* C5: SearchFilter.matches is the conjunction of the configured conditions,
\* a condition being vacuously true only when it is unset (an empty set, or
\* None for a threshold), whatever value a set threshold has, 0 included.
C5_MatchesIsConjunction ==
    \A f \in FilterInputs, o \in 1..Len(objs) : matches(f, o) = C5_Claimed(f, o)

\* position of the record o in the primary collection (0 if absent)
PositionOf(o) ==
    IF ListContains(_content, o) THEN CHOOSE i \in 1..Len(_content) : _content[i] = o
    ELSE 0

\* what C4 says of the list res returned by search(query, filters)
C4_Claimed(res, query, filters) ==
    /\ \A o \in 1..Len(objs) :
          ListContains(res, o) <=>
             /\ ListContains(_content, o)
             /\ query = <<>> \/ matches_search(o, query)
             /\ filters = None \/ matches(filters[1], o)
    /\ \A i, j \in 1..Len(res) :
          i < j => PositionOf(res[i]) < PositionOf(res[j])

\* C4: search(query, filters) returns exactly the library records that the
\* query (if not empty) and the filter (if given) both accept, each once, in
\* insertion order; with an empty query and a filter of min_rating 4.0 alone
\* these are the records whose average is at least 4.0.
C4_SearchIsFilteredSubsequence ==
    /\ \A q \in QueryInputs, f \in {None} \cup {Some(g) : g \in CalledFilters} :
          C4_Claimed(search(q, f), q, f)
    /\ search(<<>>, Some(set_rating_filter(SearchFilter_init, 4)))
          = SelectSeq(_content, LAMBDA o :
               objs[o].average_rating.num >= 4 * objs[o].average_rating.den)

\* C4 witness: a search returned one record, the second of a library of two
\* records of different kinds, the only one that is rated.
C4_Witness ==
    /\ result.op = "search" /\ result.err = "none"
    /\ Len(_content) = 2
    /\ result.ret = <<_content[2]>>
    /\ objs[_content[1]].media_type # objs[_content[2]].media_type
    /\ objs[_content[1]].ratings = <<>>
    /\ objs[_content[2]].ratings = <<5>>

(***************************************************************************)
(* SpecTop: a client that constructs records, adds, removes and rates them *)
(* and asks for the top rated ones.                                        *)
(***************************************************************************)
\* ratings the client gives
TopRatings == {3, 4, 5}

\* limits the client passes
LimitInputs == {0, 1, 2, 5}

NextTop ==
    \/ /\ Len(objs) < MaxTopObjs
       /\ Construct("movie", <<"A">>, 90, 0, "PG", << <<"a">> >>, <<>>)
    \/ \E o \in 1..MaxTopObjs : add_content(o)
    \/ remove_content(<<"a">>)
    \/ \E o \in 1..MaxTopObjs, r \in TopRatings :
          /\ RatingsGiven(Len(objs)) < MaxTopRatings
          /\ add_rating(o, r)
    \/ \E limit \in LimitInputs : call_get_top_rated(limit)

SpecTop == Init /\ [][NextTop]_vars

\* the record a ranks before the record b: a greater average, or an equal
\* average and an earlier place in the library
RanksBefore(a, b) ==
    LET x == objs[a].average_rating
        y == objs[b].average_rating
    IN \/ x.num * y.den > y.num * x.den
       \/ x.num * y.den = y.num * x.den /\ PositionOf(a) < PositionOf(b)

\* the library records with an average above 0
RatedInLibrary == {o \in Range(_content) : objs[o].average_rating.num > 0}

\* what C6 says of the list res returned by get_top_rated(limit)
C6_Claimed(res, limit) ==
    /\ Len(res) = IF limit < Cardinality(RatedInLibrary) THEN limit
                  ELSE Cardinality(RatedInLibrary)
    /\ \A i \in 1..Len(res) :
          /\ res[i] \in RatedInLibrary
          /\ objs[res[i]].ratings # <<>>
          /\ Cardinality({o \in RatedInLibrary : RanksBefore(o, res[i])}) = i - 1

\* C6: get_top_rated(limit), limit >= 0, returns the first `limit` records of
\* the library records with an average above 0, sorted by average descending,
\* records of equal average in insertion order; unrated records never appear.
C6_TopRatedIsStableDescendingPrefix ==
    \A limit \in LimitInputs : C6_Claimed(get_top_rated(limit), limit)

\* C6 witness: of a library [unrated, 4.0, 4.0] get_top_rated returned the two
\* rated records, the earlier one first.
C6_Witness ==
    /\ result.op = "get_top_rated" /\ result.err = "none"
    /\ Len(_content) = 3
    /\ objs[_content[1]].ratings = <<>>
    /\ objs[_content[2]].ratings = <<4>>
    /\ objs[_content[3]].ratings = <<4>>
    /\ result.ret = <<_content[2], _content[3]>>

(***************************************************************************)
(* SpecStats: a client that constructs records, adds them, rates and views *)
(* them and asks for the statistics.                                       *)
(***************************************************************************)
\* the records the client constructs, as <<kind, minutes>>
StatRecords == { <<"movie", 45>>, <<"podcast", 3>> }

\* ratings the client gives
StatRatings == {3, 4}

\* the number of views recorded so far
RECURSIVE ViewsRecorded(_)
ViewsRecorded(n) == IF n = 0 THEN 0 ELSE objs[n].view_count + ViewsRecorded(n - 1)

NextStats ==
    \/ \E r \in StatRecords :
          /\ Len(objs) < MaxStatObjs
          /\ Construct(r[1], <<"A">>, r[2], 0, "PG", << <<"a">> >>, <<>>)
    \/ \E o \in 1..MaxStatObjs : add_content(o)
    \/ \E o \in 1..MaxStatObjs, r \in StatRatings :
          /\ RatingsGiven(Len(objs)) < MaxStatRatings
          /\ add_rating(o, r)
    \/ \E o \in 1..MaxStatObjs :
          /\ ViewsRecorded(Len(objs)) < MaxStatViews
          /\ add_view(o)
    \/ call_get_statistics

SpecStats == Init /\ [][NextStats]_vars

\* the sum of f over the finite set S
RECURSIVE SumOver(_, _)
SumOver(S, f) ==
    IF S = {} THEN 0
    ELSE LET x == CHOOSE y \in S : TRUE IN f[x] + SumOver(S \ {x}, f)

\* the product of the denominators of the averages of the records of S
RECURSIVE DenProduct(_)
DenProduct(S) ==
    IF S = {} THEN 1
    ELSE LET x == CHOOSE y \in S : TRUE
         IN objs[x].average_rating.den * DenProduct(S \ {x})

\* the library records with at least one rating
WithRatings == {o \in Range(_content) : objs[o].ratings # <<>>}

\* what C7 says of the statistics st
C7_Claimed(st) ==
    /\ st.total_content = Cardinality(Range(_content))
    /\ st.total_content = Len(_content)
    /\ st.total_views = SumOver(Range(_content), [o \in Range(_content) |-> objs[o].view_count])
    /\ \A k \in MediaType :
          st.content_by_type[k] = Cardinality({o \in Range(_content) : objs[o].media_type = k})
    /\ WithRatings = {} => st.average_rating = ZeroAvg
    /\ WithRatings # {} =>
          LET D == DenProduct(WithRatings)
          IN st.average_rating.num * Cardinality(WithRatings) * D
               = st.average_rating.den
                   * SumOver(WithRatings,
                             [o \in WithRatings |->
                                objs[o].average_rating.num
                                   * (D \div objs[o].average_rating.den)])
    /\ LET minutes == SumOver(Range(_content),
                              [o \in Range(_content) |-> objs[o].duration_minutes])
           tenths  == st.total_runtime_hours
       IN /\ 6 * tenths - minutes <= 3
          /\ minutes - 6 * tenths <= 3
    /\ _content = <<>> =>
          /\ st.total_content = 0
          /\ st.average_rating = ZeroAvg
          /\ st.total_runtime_hours = 0

ConstructTitles == { <<>>, <<" ">>, <<" ", "A">>, <<"b">> }

\* durations passed to the constructor
ConstructDurations == { -1, 0, 1, 2 }

\* genre lists passed to the constructor
ConstructGenres == { <<>>, << <<"a">> >> }

NextConstruct ==
    \E t \in ConstructTitles, d \in ConstructDurations, g \in ConstructGenres :
       Len(objs) < MaxBuiltObjs /\ Construct("music", t, d, 0, "PG", g, <<>>)

SpecConstruct == Init /\ [][NextConstruct]_vars

\* C11: every record that construction lets exist has a stored title that is
\* non-empty after trimming, a duration > 0 and a non-empty genre list (an
\* empty or whitespace-only title, a duration <= 0 or an empty genre list
\* makes construction fail and leaves no record).
C11_ConstructedRecordsValid ==
    \A o \in 1..Len(objs) :
       /\ Strip(objs[o].title) # <<>>
       /\ objs[o].duration_minutes > 0
       /\ objs[o].genres # <<>>

(***************************************************************************)
(* Movie metadata (content_types.py).                                      *)
(***************************************************************************)
\* the conditions under which Movie.__init__ raises ValueError: those of
\* MediaContent.__init__, then `not director`
MovieInitRaises(title, duration_minutes, genres, director) ==
    InitRaises(title, duration_minutes, genres) \/ director = <<>>

\* the fields Movie.__init__ adds to those of MediaContent.__init__
MovieFields(director, cast, budget, box_office) ==
    [ director   |-> Strip(director),
      cast       |-> SelectSeq([i \in 1..Len(cast) |-> Strip(cast[i])],
                               LAMBDA actor : actor # <<>>),
      budget     |-> budget,
      box_office |-> box_office ]

\* a client constructs Movie(..., director, cast, budget, box_office), budget
\* and box_office Optional numbers
Movie_init(title, duration_minutes, release_date, content_rating, genres, description, director, cast, budget, box_office) ==
    /\ IF MovieInitRaises(title, duration_minutes, genres, director)
       THEN /\ result' = Raised("construct", "ValueError")
            /\ UNCHANGED objs
       ELSE /\ objs' = Append(objs,
                              NewRecord("movie", title, duration_minutes,
                                        release_date, content_rating,
                                        genres, description)
                                 @@ MovieFields(director, cast, budget, box_office))
            /\ result' = Returned("construct", Len(objs) + 1)
    /\ UNCHANGED <<_content, _content_by_type, now>>

\* Movie._is_blockbuster() on the movie o
_is_blockbuster(o) ==
    IF Truthy(objs[o].budget) /\ Truthy(objs[o].box_office)
    THEN objs[o].box_office[1] > objs[o].budget[1] * 3
    ELSE FALSE

\* Movie.get_metadata() on the movie o
get_metadata(o) ==
    [ type           |-> get_media_type(o),
      director       |-> objs[o].director,
      cast           |-> objs[o].cast,
      budget         |-> objs[o].budget,
      box_office     |-> objs[o].box_office,
      is_blockbuster |-> _is_blockbuster(o) ]

\* a client calls get_metadata() on the movie o
call_get_metadata(o) ==
    /\ o \in 1..Len(objs)
    /\ result' = Returned("get_metadata", get_metadata(o))
    /\ UNCHANGED <<objs, _content, _content_by_type, now>>

(***************************************************************************)
(* SpecMeta: a client that constructs movies with and without budget and   *)
(* box office figures and reads their metadata.                            *)
(***************************************************************************)
\* budgets the client passes: absent, zero, positive
BudgetInputs == { None, Some(0), Some(1), Some(2) }

\* box office figures the client passes: absent, zero, at and around 3 x budget
BoxOfficeInputs == { None, Some(0), Some(3), Some(4), Some(7) }

\* directors the client passes: empty (refused) and a padded name
DirectorInputs == { <<>>, <<"d", " ">> }

NextMeta ==
    \/ \E dir \in DirectorInputs, b \in BudgetInputs, x \in BoxOfficeInputs :
          /\ Len(objs) < MaxMetaMovies
          /\ Movie_init(<<"A">>, 90, 0, "PG", << <<"a">> >>, <<>>, dir, << <<"c">>, <<" ">> >>, b, x)
    \/ \E o \in 1..MaxMetaMovies : call_get_metadata(o)

SpecMeta == Init /\ [][NextMeta]_vars

\* C12: the is_blockbuster entry of get_metadata() of a movie is true iff its
\* budget and its box_office are both present (not None) and box_office >
\* 3 * budget, whatever the present values, 0 included.
C12_BlockbusterIffTripleBudget ==
    [][\A o \in 1..MaxMetaMovies :
          call_get_metadata(o) =>
             (result'.ret.is_blockbuster
                <=> /\ objs[o].budget # None
                    /\ objs[o].box_office # None
                    /\ objs[o].box_office[1] > 3 * objs[o].budget[1])
      ]_vars

(***************************************************************************)
(* MediaLibrary.get_recently_added (library.py).                           *)
(***************************************************************************)
\* the names bound in the module library.py: those its import statements
\* bind and the classes it defines
LibraryNames ==
    { "List", "Dict", "Optional", "Set", "Callable", "datetime",
      "MediaContent", "MediaType", "ContentRating", "Movie", "TVShow",
      "SearchFilter", "MediaLibrary" }

\* a client calls MediaLibrary.get_recently_added(days); evaluating a name
\* that is not bound in the module raises NameError
get_recently_added(days) ==
    /\ IF "timedelta" \notin LibraryNames
       THEN result' = Raised("get_recently_added", "NameError")
       ELSE LET cutoff == now - days
            IN result' = Returned("get_recently_added",
                                  SelectSeq(_content,
                                            LAMBDA c : objs[c].created_at >= cutoff))
    /\ UNCHANGED <<objs, _content, _content_by_type, now>>

(***************************************************************************)
(* SpecRecent: a client that constructs and adds records on different days *)
(* and asks for the recently added ones.                                   *)
(***************************************************************************)
\* the numbers of days the client asks about
DaysInputs == { 0, 1, 7 }

NextRecent ==
    \/ \E k \in {"movie", "music"} :
          /\ Len(objs) < MaxRecentObjs
          /\ Construct(k, <<"A">>, 90, 0, "PG", << <<"a">> >>, <<>>)
    \/ \E o \in 1..MaxRecentObjs : add_content(o)
    \/ \E d \in DaysInputs : get_recently_added(d)
    \/ now < MaxRecentNow /\ Tick

SpecRecent == Init /\ [][NextRecent]_vars

\* C13: for every library state and every days >= 0, get_recently_added(days)
\* completes without error and returns exactly the library records whose
\* creation timestamp is >= now - days, in insertion order.
C13_RecentlyAddedReturnsRecent ==
    [][\A d \in DaysInputs :
          get_recently_added(d) =>
             /\ result'.err = "none"
             /\ result'.ret = SelectSeq(_content,
                                        LAMBDA c : objs[c].created_at >= now - d)
      ]_vars

====
